---- MODULE Spec2Model ----
(***************************************************************************)
(* Model of the tpcPid task of Common/TableProducer/PID/pidTPC.cxx: the    *)
(* nine per-species Configurable<int> flags, their resolution against the  *)
(* inputs of the running workflow in init(), the loading of the signal and *)
(* sigma parametrizations, and process(), which fills one table per        *)
(* species whose flag is 1.                                                *)
(*                                                                         *)
(* A separation is a record: a finite one holds a fixed-point number in    *)
(* hundredths of a sigma, a non-finite one its sign (0 for NaN).           *)
(***************************************************************************)
EXTENDS Integers, Sequences, FiniteSets, TLC

(***************************************************************************)
(* Bounds of the model.                                                    *)
(***************************************************************************)
\* total number of inputs over all devices of the workflow
MaxInputs == 2
\* number of tracks of one batch
MaxTracks == 2
\* number of batches of one run
MaxBatches == 2

(***************************************************************************)
(* The nine mass hypotheses, in the order init() and process() visit them. *)
(***************************************************************************)
Particles == <<"El", "Mu", "Pi", "Ka", "Pr", "De", "Tr", "He", "Al">>

Species == {Particles[i] : i \in 1..Len(Particles)}

\* position of a species in Particles (o2::track::PID::ID + 1)
PidIndex(particle) == CHOOSE i \in 1..Len(Particles) : Particles[i] = particle

\* const std::string table = "pidTPC" + particle;
TableName(particle) == "pidTPC" \o particle

\* default of every pid-xx Configurable
AutoFlag == -1

\* values a pid-xx option is given: below -1 and above 1 are accepted ints
FlagValues == {-2, -1, 0, 1, 2}

\* one species configured to v, the eight others to w
FlagConfigs ==
  {[s \in Species |-> IF s = t THEN v ELSE w] :
     t \in Species, v \in FlagValues, w \in {AutoFlag, 1}}

\* bindings of the inputs of the devices of the workflow
Bindings == {TableName(s) : s \in Species} \cup {"Tracks"}

RECURSIVE SeqsUpTo(_, _)
\* all sequences over S of length at most n
SeqsUpTo(S, n) ==
  IF n = 0 THEN {<<>>}
  ELSE LET shorter == SeqsUpTo(S, n - 1)
       IN  shorter \cup {Append(q, e) : q \in {r \in shorter : Len(r) = n - 1}, e \in S}

RECURSIVE Flatten(_)
\* the inputs of all devices, in scan order
Flatten(devs) ==
  IF devs = <<>> THEN <<>> ELSE Head(devs) \o Flatten(Tail(devs))

RECURSIVE Splits(_)
\* every way to distribute a list of inputs over consecutive devices
Splits(inputs) ==
  IF inputs = <<>> THEN {<<>>}
  ELSE UNION {{<<SubSeq(inputs, 1, k)>> \o rest :
                   rest \in Splits(SubSeq(inputs, k + 1, Len(inputs)))} :
                k \in 1..Len(inputs)}

\* the workflows: devices with their input bindings, at most MaxInputs inputs
Workflows == UNION {Splits(inputs) : inputs \in SeqsUpTo(Bindings, MaxInputs)}

(***************************************************************************)
(* Tracks and the detector response.                                       *)
(***************************************************************************)
\* a track: measured TPC signal and momentum at the inner wall
Tracks ==
  { [tpcSignal |-> 60, tpcInnerParam |-> 1],
    [tpcSignal |-> 60, tpcInnerParam |-> 0] }

\* the batches, and the data of a run: the batches process() is called with
TrackBatches == SeqsUpTo(Tracks, MaxTracks)
DataSets == SeqsUpTo(TrackBatches, MaxBatches)

\* expected signal of the loaded signal parametrization
ExpectedSignal(particle, trk) == 50 + PidIndex(particle)

\* expected resolution of the loaded sigma parametrization; 0 at momentum 0
ExpectedSigma(particle, trk) == 5 * trk.tpcInnerParam

\* fixed point: hundredths
SepScale == 100

\* integer quotient rounded toward zero
TruncDiv(a, b) == IF a >= 0 THEN a \div b ELSE -((-a) \div b)

Finite(n) == [finite |-> TRUE, val |-> n]
PosInf == [finite |-> FALSE, val |-> 1]
NegInf == [finite |-> FALSE, val |-> -1]
NaN == [finite |-> FALSE, val |-> 0]

\* (measured signal - expected signal) / expected resolution, IEEE division
GetSeparation(particle, trk) ==
  LET diff  == trk.tpcSignal - ExpectedSignal(particle, trk)
      sigma == ExpectedSigma(particle, trk)
  IN  IF sigma = 0
      THEN IF diff > 0 THEN PosInf ELSE IF diff < 0 THEN NegInf ELSE NaN
      ELSE Finite(TruncDiv(SepScale * diff, sigma))

(***************************************************************************)
(* The quantization codec.                                                 *)
(***************************************************************************)
BinnedMin == -1000
BinnedMax == 1000
BinWidth == 10
NumBins == (BinnedMax - BinnedMin) \div BinWidth

\* the codes a table row holds
Codes == 0..(NumBins - 1)

Clamp(n) == IF n < 0 THEN 0 ELSE IF n > NumBins - 1 THEN NumBins - 1 ELSE n

\* round((value - min) / binWidth), clamped to [0, numBins - 1]
Encode(value) ==
  IF value = PosInf THEN NumBins - 1
  ELSE IF value = NegInf THEN 0
  ELSE IF value.val - BinnedMin < 0 THEN 0
  ELSE Clamp((2 * (value.val - BinnedMin) + BinWidth) \div (2 * BinWidth))

\* the codes packInTable may append for a separation: the conversion of NaN
\* to an integer is undefined, any code may result
packInTable(separation) ==
  IF separation = NaN THEN Codes ELSE {Encode(separation)}

(***************************************************************************)
(* State.                                                                  *)
(***************************************************************************)
VARIABLES
  pidFlag,     \* value of the nine pid-xx Configurables
  configured,  \* the values the options were given (never written)
  devices,     \* RunningWorkflowInfo::devices, each device its input bindings
  paramfile,   \* param-file
  response,    \* DetectorResponse: what is loaded for kSignal and kSigma
  loads,       \* the load requests made so far, in order
  pc,          \* position of the task
  pending,     \* the batches of the run not yet processed
  tracks,      \* the batch of the last process() call
  tables,      \* the rows of the nine Produces<> tables for that batch
  processed    \* TRUE once process() has run

vars == <<pidFlag, configured, devices, paramfile, response, loads, pc,
          pending, tracks, tables, processed>>
(***************************************************************************)
(* init(): resolution of the flags against the workflow (lines 78-106).    *)
(***************************************************************************)
\* the set of bindings of all inputs of all devices
Demand(devs) == {Flatten(devs)[i] : i \in 1..Len(Flatten(devs))}

\* enableFlag with "flag >= 0" for "flag > 0": a demanded forced-off table
\* is switched on
enableFlagOverridesOff(input, particle, flag) ==
  IF input = TableName(particle) THEN 1 ELSE flag

\* enableFlag that switches on only the auto flags and switches the others off
enableFlagAutoOnly(input, particle, flag) ==
  IF input = TableName(particle)
  THEN IF flag < 0 THEN 1 ELSE 0
  ELSE flag

\* enableFlag whose "flag > 0" branch only logs
enableFlagKeepsPositive(input, particle, flag) ==
  IF input = TableName(particle)
  THEN IF flag < 0 THEN 1 ELSE flag
  ELSE flag

\* the lambda enableFlag for one input: the value of flag after the call
enableFlag(input, particle, flag) ==
  IF input = TableName(particle)
  THEN IF flag < 0 THEN 1
       ELSE IF flag > 0 THEN 1
       ELSE flag
  ELSE flag

\* the nine enableFlag calls made for one input
ScanInput(input, flags) ==
  [s \in Species |-> enableFlag(input, s, flags[s])]

\* a scan that looks at the first input of a device only
ScanInputsFirstOnly(inputs, flags) ==
  IF inputs = <<>> THEN flags ELSE ScanInput(Head(inputs), flags)

RECURSIVE ScanInputs(_, _)
\* for (auto input : device.inputs)
ScanInputs(inputs, flags) ==
  IF inputs = <<>> THEN flags
  ELSE ScanInputs(Tail(inputs), ScanInput(Head(inputs), flags))

RECURSIVE ScanDevices(_, _)
\* for (DeviceSpec device : workflows.devices)
ScanDevices(devs, flags) ==
  IF devs = <<>> THEN flags
  ELSE ScanDevices(Tail(devs), ScanInputs(Head(devs), flags))

ResolveFlags ==
  /\ pc = "init"
  /\ pidFlag' = ScanDevices(devices, pidFlag)
  /\ pc' = "loadSignal"
  /\ UNCHANGED <<configured, devices, paramfile, response, loads, pending,
                 tracks, tables, processed>>

(***************************************************************************)
(* init(): loading of the two parametrizations (lines 115-130).            *)
(***************************************************************************)
\* defaults of param-signal, param-sigma and ccdbPath
ParamName(kind) == IF kind = "kSignal" THEN "BetheBloch" ELSE "TPCReso"
CcdbPath == "Analysis/PID/TPC"

\* param-file: empty, or the path of a local file
ParamFiles == {"", "TPCParam.root"}

\* a request that ignores param-file
LoadRequestCcdbOnly(kind) ==
  [kind |-> kind, mode |-> "ccdb",
   from |-> CcdbPath \o "/" \o ParamName(kind), name |-> ParamName(kind)]

\* no parametrization loaded
NoParam == [kind |-> "", mode |-> "unset", from |-> "", name |-> ""]

\* the load init() requests for one kind of parametrization
LoadRequest(kind) ==
  IF paramfile # ""
  THEN [kind |-> kind, mode |-> "file", from |-> paramfile,
        name |-> ParamName(kind)]
  ELSE [kind |-> kind, mode |-> "ccdb",
        from |-> CcdbPath \o "/" \o ParamName(kind), name |-> ParamName(kind)]

\* the object is found: it becomes the parametrization of its kind
LoadParam(kind, next) ==
  /\ response' = [response EXCEPT ![kind] = LoadRequest(kind)]
  /\ pc' = next

\* a failed load that leaves the parametrization unset and goes on
LoadErrorIgnored ==
  /\ pc' = IF pc = "loadSignal" THEN "loadSigma" ELSE "ready"
  /\ UNCHANGED response

\* the object is not found: the run ends
FatalLoadError ==
  /\ pc' = "aborted"
  /\ UNCHANGED response

LoadSignal ==
  /\ pc = "loadSignal"
  /\ loads' = Append(loads, LoadRequest("kSignal"))
  /\ \/ LoadParam("kSignal", "loadSigma")
     \/ FatalLoadError
  /\ UNCHANGED <<pidFlag, configured, devices, paramfile, pending, tracks,
                 tables, processed>>

LoadSigma ==
  /\ pc = "loadSigma"
  /\ loads' = Append(loads, LoadRequest("kSigma"))
  /\ \/ LoadParam("kSigma", "ready")
     \/ FatalLoadError
  /\ UNCHANGED <<pidFlag, configured, devices, paramfile, pending, tracks,
                 tables, processed>>

(***************************************************************************)
(* process(): one batch of tracks (lines 135-172).                         *)
(***************************************************************************)
RECURSIVE PackAllReversed(_, _)
\* a loop that stores the rows last track first
PackAllReversed(particle, trks) ==
  IF trks = <<>> THEN {<<>>}
  ELSE {rest \o <<c>> :
          c \in packInTable(GetSeparation(particle, Head(trks))),
          rest \in PackAllReversed(particle, Tail(trks))}

RECURSIVE PackAll(_, _)
\* the rows the loop on tracks may append, first track first
PackAll(particle, trks) ==
  IF trks = <<>> THEN {<<>>}
  ELSE {<<c>> \o rest :
          c \in packInTable(GetSeparation(particle, Head(trks))),
          rest \in PackAll(particle, Tail(trks))}

\* makeTable with "flag.value != 0" for "flag.value == 1"
makeTableNonZero(flag, table, particle, trks) ==
  IF flag # 0
  THEN {table \o rows : rows \in PackAll(particle, trks)}
  ELSE {table}

\* the lambda makeTable: the contents the table may have after the call
makeTable(flag, table, particle, trks) ==
  IF flag = 1
  THEN {table \o rows : rows \in PackAll(particle, trks)}
  ELSE {table}

\* the Produces<> members: a table per species, without rows
NewTables == [s \in Species |-> <<>>]

RECURSIVE MakeTables(_, _, _, _)
\* the nine makeTable calls, from species number i on
MakeTables(i, flags, tbls, trks) ==
  IF i > Len(Particles) THEN {tbls}
  ELSE LET s == Particles[i]
       IN  UNION {MakeTables(i + 1, flags, [tbls EXCEPT ![s] = t], trks) :
                    t \in makeTable(flags[s], tbls[s], s, trks)}

\* process() on a batch, leaving the flags at flagsAfter
ProcessWith(flagsAfter) ==
  /\ pc = "ready"
  /\ pending # <<>>
  /\ tracks' = Head(pending)
  /\ pending' = Tail(pending)
  /\ tables' \in MakeTables(1, pidFlag, NewTables, Head(pending))
  /\ processed' = TRUE
  /\ pidFlag' = flagsAfter
  /\ UNCHANGED <<configured, devices, paramfile, response, loads, pc>>

\* a process() that takes the flags from the options again
ProcessRereadsOptions == ProcessWith(configured)

\* makeTable takes the flag by const reference: process() writes no flag
Process == ProcessWith(pidFlag)

(***************************************************************************)
(* The run.                                                                *)
(***************************************************************************)
\* what every run starts from, whatever its options, workflow and data
Start ==
  /\ pidFlag = configured
  /\ response = [kSignal |-> NoParam, kSigma |-> NoParam]
  /\ loads = <<>>
  /\ pc = "init"
  /\ tracks = <<>>
  /\ tables = NewTables
  /\ processed = FALSE

Next == ResolveFlags \/ LoadSignal \/ LoadSigma \/ Process

\* kaon configured, with no consumer, one consumer of the kaon table, or
\* two devices of which the second consumes it
KaonFlags == {[s \in Species |-> IF s = "Ka" THEN v ELSE AutoFlag] : v \in {AutoFlag, 0, 1}}
KaonWorkflows ==
  { <<>>,
    << <<TableName("Ka")>> >>,
    << <<"Tracks", TableName("El")>>, <<TableName("Ka")>> >> }

\* runs over every data set, from either source of the parametrizations
Init ==
  /\ configured \in KaonFlags
  /\ devices \in KaonWorkflows
  /\ paramfile \in ParamFiles
  /\ pending \in DataSets
  /\ Start

Spec == Init /\ [][Next]_vars

\* one batch: a track of finite and a track of infinite separation
DemandData ==
  << << [tpcSignal |-> 60, tpcInnerParam |-> 1],
        [tpcSignal |-> 60, tpcInnerParam |-> 0] >> >>

\* runs of every configuration of the flags in every workflow
InitDemand ==
  /\ configured \in FlagConfigs
  /\ devices \in Workflows
  /\ paramfile = ""
  /\ pending = DemandData
  /\ Start

SpecDemand == InitDemand /\ [][Next]_vars
(***************************************************************************)
(* Properties.                                                             *)
(***************************************************************************)
\* init() has resolved the flags
Resolved == pc # "init"

\* some input of some device binds the table of species s
Demanded(s) == TableName(s) \in Demand(devices)

\* process() has run on a batch with tracks
BatchDone == processed /\ tracks # <<>>

\* C1: a species configured forced-off (0) is disabled whatever the workflow
\* demands: its flag is 0 in every state and its table never gets a row.
C1_ForcedOffDisabled ==
  \A s \in Species :
    configured[s] = 0 => pidFlag[s] = 0 /\ tables[s] = <<>>

\* a batch with tracks was processed while a forced-off table was demanded
C1_Witness ==
  /\ BatchDone
  /\ \E s \in Species : configured[s] = 0 /\ Demanded(s)

\* C2: a species configured forced-on (1) is enabled after init whatever the
\* demand: its flag is 1 and every processed batch fills its table with one
\* row per track.
C2_ForcedOnEnabled ==
  \A s \in Species :
    configured[s] = 1 =>
      /\ pidFlag[s] = 1
      /\ processed => Len(tables[s]) = Len(tracks)

\* a batch with tracks was processed for a forced-on table nobody demands
C2_Witness ==
  /\ BatchDone
  /\ \E s \in Species : configured[s] = 1 /\ ~Demanded(s)

\* C3: a species configured auto (-1) is enabled after init iff its table
\* name is the binding of some input of some device; with all nine flags
\* auto and a demand of exactly {"pidTPCKa"} only kaon is enabled.
C3_AutoIffDemanded ==
  Resolved =>
    /\ \A s \in Species :
         configured[s] = AutoFlag => (pidFlag[s] = 1 <=> Demanded(s))
    /\ ( /\ \A s \in Species : configured[s] = AutoFlag
         /\ Demand(devices) = {"pidTPCKa"} )
       => {s \in Species : pidFlag[s] = 1} = {"Ka"}

\* scenario C has run: all flags auto, only pidTPCKa demanded, kaon filled
C3_Witness ==
  /\ BatchDone
  /\ \A s \in Species : configured[s] = AutoFlag
  /\ Demand(devices) = {"pidTPCKa"}
  /\ tables["Ka"] # <<>>
  /\ \A s \in Species \ {"Ka"} : tables[s] = <<>>

\* C10: the table of a species is filled iff its configured flag f is 1, or
\* f is not 0 and the table is demanded; nothing else of the workflow or of
\* the other flags matters.
C10_EnablementLaw ==
  \A s \in Species :
    LET enabled == \/ configured[s] = 1
                   \/ configured[s] # 0 /\ Demanded(s)
    IN  /\ Resolved => (pidFlag[s] = 1 <=> enabled)
        /\ BatchDone => (tables[s] # <<>> <=> enabled)

\* a flag above 1 was resolved both ways: one run fills the demanded table
C10_Witness ==
  /\ BatchDone
  /\ \E s \in Species : configured[s] > 1 /\ Demanded(s) /\ tables[s] # <<>>
  /\ Len(Flatten(devices)) > 1
\* C4 as stated: for a species whose resolved flag is not 1 a batch yields
\* no output table at all.
C4_NoTableWhenDisabled ==
  processed => \A s \in Species : pidFlag[s] # 1 => s \notin DOMAIN tables

\* C4: for a species whose resolved flag is not 1 the table exists after
\* every batch and has no rows.
C4_DisabledTableEmpty ==
  processed =>
    \A s \in Species : pidFlag[s] # 1 => s \in DOMAIN tables /\ tables[s] = <<>>

\* a batch with tracks was processed with one table enabled, another not
C4_Witness ==
  /\ BatchDone
  /\ \E s, t \in Species : pidFlag[s] # 1 /\ pidFlag[t] = 1 /\ tables[t] # <<>>

\* C5: after process() on a batch of N tracks the table of every enabled
\* species has N rows, and row i is a code of the separation of track i.
C5_OrderPreserved ==
  processed =>
    \A s \in Species :
      pidFlag[s] = 1 =>
        /\ Len(tables[s]) = Len(tracks)
        /\ \A i \in 1..Len(tracks) :
             tables[s][i] \in packInTable(GetSeparation(s, tracks[i]))

\* a batch of two tracks with different codes was processed
C5_Witness ==
  /\ processed
  /\ Len(tracks) = 2
  /\ \E s \in Species :
       pidFlag[s] = 1 /\ Len(tables[s]) = 2 /\ tables[s][1] # tables[s][2]

\* C6: a track whose separation is not finite never gets an ordinary code:
\* either no row is stored for it or the row holds a marker outside the codes.
C6_InvalidNeverStored ==
  processed =>
    \A s \in Species :
      pidFlag[s] = 1 =>
        \A i \in 1..Len(tracks) :
          ~GetSeparation(s, tracks[i]).finite =>
            i \notin DOMAIN tables[s] \/ tables[s][i] \notin Codes

\* C7: once init() has resolved the flags no step changes any of them.
C7_EnablementFixed == [][Resolved => pidFlag' = pidFlag]_vars

\* a batch was processed with an auto-enabled table and another is to come
C7_Witness ==
  /\ processed
  /\ pending # <<>>
  /\ \E s \in Species : pidFlag[s] = 1 /\ configured[s] # 1

\* C8: when a load fails the run is aborted and never processes a batch: a
\* batch is processed only with both parametrizations loaded.
C8_LoadFailureAborts ==
  /\ pc = "aborted" => ~processed
  /\ processed =>
       response["kSignal"] # NoParam /\ response["kSigma"] # NoParam

\* a run was aborted by the sigma load, after the signal load succeeded
C8_Witness ==
  /\ pc = "aborted"
  /\ Len(loads) = 2
  /\ response["kSignal"] # NoParam

\* C9: no load is requested before the flags are resolved, and a batch is
\* processed only after exactly two loads, signal then sigma, each from the
\* file when param-file is set and from "<ccdbPath>/<name>" otherwise.
C9_StartupOrder ==
  LET expected(kind, name) ==
        IF paramfile = ""
        THEN [kind |-> kind, mode |-> "ccdb", name |-> name,
              from |-> "Analysis/PID/TPC/" \o name]
        ELSE [kind |-> kind, mode |-> "file", name |-> name,
              from |-> paramfile]
  IN  /\ loads # <<>> => Resolved /\ pidFlag = ScanDevices(devices, configured)
      /\ processed =>
           /\ loads = <<expected("kSignal", "BetheBloch"),
                        expected("kSigma", "TPCReso")>>
           /\ response = [kSignal |-> loads[1], kSigma |-> loads[2]]

\* a batch was processed after loading from a file
C9_Witness ==
  /\ BatchDone
  /\ paramfile # ""
  /\ Len(loads) = 2
====
